---- MODULE Spec2Model ----
(***************************************************************************)
(* A model of the two All-of-Us metadata analysis scripts                  *)
(*   scripts/AoU/level2_metadata_analysis.py  (specification Spec)         *)
(*   scripts/AoU/level1_metadata_analysis.py  (specification SpecLevel1)   *)
(* Each script is a straight-line program: read the dataset identifier,    *)
(* build a query, run it, then a sequence of plot / test sections.  One    *)
(* action models one section.  An unhandled Python exception ends the run  *)
(* (pc = "aborted").                                                       *)
(*                                                                         *)
(* Values: a nullable cell (SQL NULL, pandas NaN/None) is <<>>; a present  *)
(* value v is <<v>>.  p-values are integers in units of 1/10000, so 500 is *)
(* 0.05 and 10 is 0.001; NaN is a separate value.                          *)
(***************************************************************************)
EXTENDS Integers, Sequences, FiniteSets, TLC

None == <<>>
Some(v) == <<v>>

\* Largest number of rows of the person table that the warehouse holds.
MaxPersons == 3

-----------------------------------------------------------------------------
(* Program constants *)

ReferenceYear == 2025
ZipConceptId == 1585250
Alpha == 500
PSmall == 10
Sentinel == "No matching concept"
long_label == "What Race Ethnicity: Race Ethnicity None Of These"
short_label == "None Of These"

NaN == 0 - 1
\* The p-values a test of the statistics library may return.
PValues == {4, 10, 499, 500, 10000, NaN}

\* The dataset the warehouse holds, and the values WORKSPACE_CDR may have.
WarehouseDataset == "aou.C2024Q3R5"
Environments == {None, Some(WarehouseDataset)}

-----------------------------------------------------------------------------
(* Sequence helpers *)

RECURSIVE Concat(_)
Concat(ss) == IF ss = <<>> THEN <<>> ELSE Head(ss) \o Concat(Tail(ss))

RECURSIVE Unique(_)
\* pandas Series.unique(): distinct values in order of first appearance
Unique(s) ==
    IF s = <<>> THEN <<>>
    ELSE LET h == Head(s)
         IN <<h>> \o Unique(SelectSeq(Tail(s), LAMBDA x : x # h))

Range(s) == {s[i] : i \in 1..Len(s)}

RECURSIVE SumSeq(_)
SumSeq(s) == IF s = <<>> THEN 0 ELSE Head(s) + SumSeq(Tail(s))

RECURSIVE Perms(_)
\* all orderings of a finite set
Perms(S) ==
    IF S = {} THEN {<<>>}
    ELSE UNION {{<<x>> \o p : p \in Perms(S \ {x})} : x \in S}

-----------------------------------------------------------------------------
(* The warehouse: the tables the query engine reads *)

RaceConceptIds == <<None, Some(0), Some(1), Some(2)>>
EthnicityConceptIds == <<Some(3), Some(4)>>
\* The observations one subject may have: none; a ZIP3 answer with a lookup
\* entry; two ZIP3 answers, one with a lookup entry and one without; a ZIP3
\* answer without a lookup entry beside an answer to another question.
ObservationKinds ==
    << <<>>,
       <<[concept |-> ZipConceptId, value |-> Some("100")]>>,
       <<[concept |-> ZipConceptId, value |-> Some("200")],
         [concept |-> ZipConceptId, value |-> Some("999")]>>,
       <<[concept |-> ZipConceptId, value |-> Some("999")],
         [concept |-> ZipConceptId - 1, value |-> Some("100")]>> >>

NumKinds == Len(RaceConceptIds) * Len(EthnicityConceptIds) * Len(ObservationKinds)

KindRace(k) == RaceConceptIds[(k % Len(RaceConceptIds)) + 1]
KindEthnicity(k) ==
    EthnicityConceptIds[((k \div Len(RaceConceptIds)) % Len(EthnicityConceptIds)) + 1]
KindObservations(k) ==
    ObservationKinds[(k \div (Len(RaceConceptIds) * Len(EthnicityConceptIds))) + 1]

RECURSIVE SortedKindSeqs(_, _)
\* The subject kinds of a person table of n rows.  Row order and the choice of
\* person_id are immaterial to a query, so one ordering per multiset is drawn.
SortedKindSeqs(n, lo) ==
    IF n = 0 THEN {<<>>}
    ELSE UNION {{<<k>> \o s : s \in SortedKindSeqs(n - 1, k)} : k \in lo..(NumKinds - 1)}

PersonTable(ks) ==
    [i \in 1..Len(ks) |->
        [person_id |-> i,
         year_of_birth |-> Some(1990),
         sex_at_birth_concept_id |-> Some(5),
         race_concept_id |-> KindRace(ks[i]),
         ethnicity_concept_id |-> KindEthnicity(ks[i])]]

ObservationTable(ks) ==
    Concat([i \in 1..Len(ks) |->
        [j \in 1..Len(KindObservations(ks[i])) |->
            [person_id |-> i,
             observation_source_concept_id |-> KindObservations(ks[i])[j].concept,
             value_as_string |-> KindObservations(ks[i])[j].value]]])

ConceptUnique ==
    << [concept_id |-> 0, concept_name |-> Sentinel],
       [concept_id |-> 1, concept_name |-> "White"],
       [concept_id |-> 2, concept_name |-> "Black or African American"],
       [concept_id |-> 3, concept_name |-> long_label],
       [concept_id |-> 4, concept_name |-> "Hispanic or Latino"],
       [concept_id |-> 5, concept_name |-> "Female"] >>
ConceptDuplicate ==
    ConceptUnique \o <<[concept_id |-> 1, concept_name |-> "Caucasian"]>>

Zip3Unique ==
    << [zip3_as_string |-> "100", median_income |-> Some(52000),
        fraction_poverty |-> Some(14), fraction_no_health_ins |-> Some(9)],
       [zip3_as_string |-> "200", median_income |-> Some(61000),
        fraction_poverty |-> Some(11), fraction_no_health_ins |-> Some(7)] >>
Zip3Duplicate ==
    Zip3Unique \o << [zip3_as_string |-> "100", median_income |-> Some(47000),
                       fraction_poverty |-> Some(19), fraction_no_health_ins |-> Some(12)] >>

Database(ks, c, z) ==
    [person |-> PersonTable(ks), observation |-> ObservationTable(ks),
     concept |-> c, zip3_ses_map |-> z]

\* The warehouses drawn: every person table of up to MaxPersons rows over
\* lookups with unique keys, and the one-row person tables over a lookup
\* with a duplicate key.
Databases ==
    {Database(ks, ConceptUnique, Zip3Unique) :
        ks \in UNION {SortedKindSeqs(n, 0) : n \in 0..MaxPersons}}
    \cup {Database(ks, ConceptDuplicate, Zip3Unique) : ks \in SortedKindSeqs(1, 0)}
    \cup {Database(ks, ConceptUnique, Zip3Duplicate) : ks \in SortedKindSeqs(1, 0)}

NoDatabase == [person |-> <<>>, observation |-> <<>>, concept |-> <<>>, zip3_ses_map |-> <<>>]

-----------------------------------------------------------------------------
(* SQL semantics *)

\* a = b in an ON clause, a nullable: NULL equals nothing
SqlEq(a, b) == a # None /\ a[1] = b

\* L LEFT JOIN R AS alias ON on, on being the pairs <<l, r>> that satisfy the
\* condition: every row of L, once per matching row of R, and once with NULLs
\* when no row of R matches.
LeftJoin(L, R, on, alias) ==
    Concat([i \in 1..Len(L) |->
        LET m == SelectSeq(R, LAMBDA r : <<L[i], r>> \in on)
        IN IF m = <<>> THEN <<(alias :> None) @@ L[i]>>
           ELSE [j \in 1..Len(m) |-> (alias :> Some(m[j])) @@ L[i]]])

\* L JOIN R AS alias ON on
InnerJoin(L, R, on, alias) ==
    Concat([i \in 1..Len(L) |->
        LET m == SelectSeq(R, LAMBDA r : <<L[i], r>> \in on)
        IN [j \in 1..Len(m) |-> (alias :> Some(m[j])) @@ L[i]]])

\* the column f of a joined (possibly NULL-extended) row
ConceptName(m) == IF m = None THEN None ELSE Some(m[1].concept_name)
SesColumn(m, f) == IF m = None THEN None ELSE m[1][f]

Age(p) == IF p.year_of_birth = None THEN None ELSE Some(ReferenceYear - p.year_of_birth[1])

SexJoinOn(l, r) == SqlEq(l.p.sex_at_birth_concept_id, r.concept_id)
RaceJoinOn(l, r) == SqlEq(l.p.race_concept_id, r.concept_id)
EthnicityJoinOn(l, r) == SqlEq(l.p.ethnicity_concept_id, r.concept_id)

ObsJoinOnAnyConcept(l, r) == l.p.person_id = r.person_id
ObsJoinOn(l, r) ==
    /\ l.p.person_id = r.person_id
    /\ r.observation_source_concept_id = ZipConceptId

SesJoinOn(l, r) == l.obs # None /\ SqlEq(l.obs[1].value_as_string, r.zip3_as_string)

\* person p LEFT JOIN concept c_sex, c_race, c_eth
DemographicJoins(db) ==
    LET j0 == [i \in 1..Len(db.person) |-> [p |-> db.person[i]]]
        j1 == LeftJoin(j0, db.concept,
                 {x \in Range(j0) \X Range(db.concept) : SexJoinOn(x[1], x[2])}, "c_sex")
        j2 == LeftJoin(j1, db.concept,
                 {x \in Range(j1) \X Range(db.concept) : RaceJoinOn(x[1], x[2])}, "c_race")
    IN LeftJoin(j2, db.concept,
                 {x \in Range(j2) \X Range(db.concept) : EthnicityJoinOn(x[1], x[2])}, "c_eth")

DataFrame(cols, rows) == [columns |-> cols, rows |-> rows]
\* pd.DataFrame(): no columns, no rows
EmptyDataFrame == DataFrame(<<>>, <<>>)

CombinedColumns ==
    <<"person_id", "age", "sex_at_birth", "race", "ethnicity",
      "median_income", "fraction_poverty", "fraction_no_health_ins">>
DemographicColumns == <<"age", "sex_at_birth", "race", "ethnicity">>
SesColumns == <<"median_income", "fraction_poverty", "fraction_no_health_ins">>

\* level 2: the combined query
CombinedQuery(db) ==
    LET j3 == DemographicJoins(db)
        j4 == LeftJoin(j3, db.observation,
                 {x \in Range(j3) \X Range(db.observation) : ObsJoinOn(x[1], x[2])}, "obs")
        j5 == LeftJoin(j4, db.zip3_ses_map,
                 {x \in Range(j4) \X Range(db.zip3_ses_map) : SesJoinOn(x[1], x[2])}, "ses")
    IN DataFrame(CombinedColumns,
        [i \in 1..Len(j5) |->
            [person_id |-> Some(j5[i].p.person_id),
             age |-> Age(j5[i].p),
             sex_at_birth |-> ConceptName(j5[i].c_sex),
             race |-> ConceptName(j5[i].c_race),
             ethnicity |-> ConceptName(j5[i].c_eth),
             median_income |-> SesColumn(j5[i].ses, "median_income"),
             fraction_poverty |-> SesColumn(j5[i].ses, "fraction_poverty"),
             fraction_no_health_ins |-> SesColumn(j5[i].ses, "fraction_no_health_ins")]])

\* level 1: the demographics-only query
DemographicsQuery(db) ==
    LET j3 == DemographicJoins(db)
    IN DataFrame(DemographicColumns,
        [i \in 1..Len(j3) |->
            [age |-> Age(j3[i].p),
             sex_at_birth |-> ConceptName(j3[i].c_sex),
             race |-> ConceptName(j3[i].c_race),
             ethnicity |-> ConceptName(j3[i].c_eth)]])

\* level 1: observation JOIN zip3_ses_map WHERE the observation is a ZIP3 answer
SesQuery(db) ==
    LET o == [i \in 1..Len(db.observation) |-> [obs |-> Some(db.observation[i])]]
        j == InnerJoin(o, db.zip3_ses_map,
                 {x \in Range(o) \X Range(db.zip3_ses_map) : SesJoinOn(x[1], x[2])}, "ses")
        w == SelectSeq(j, LAMBDA r : r.obs[1].observation_source_concept_id = ZipConceptId)
    IN DataFrame(SesColumns,
        [i \in 1..Len(w) |->
            [median_income |-> SesColumn(w[i].ses, "median_income"),
             fraction_poverty |-> SesColumn(w[i].ses, "fraction_poverty"),
             fraction_no_health_ins |-> SesColumn(w[i].ses, "fraction_no_health_ins")]])

-----------------------------------------------------------------------------
(* pandas semantics *)

HasColumn(df, c) == c \in Range(df.columns)
HasColumns(df, cs) == \A c \in cs : HasColumn(df, c)

\* df.dropna(subset=cs)
DropNa(df, cs) ==
    DataFrame(df.columns, SelectSeq(df.rows, LAMBDA r : \A c \in cs : r[c] # None))

\* df[df[c] != v]: a null cell differs from every label and is kept
WhereNe(df, c, v) ==
    DataFrame(df.columns, SelectSeq(df.rows, LAMBDA r : r[c] # Some(v)))

\* df[c] as a sequence of cells
Column(df, c) == [i \in 1..Len(df.rows) |-> df.rows[i][c]]

\* [df[v][df[c] == g] for g in groups]
ValuesByGroup(df, v, c, gs) ==
    [i \in 1..Len(gs) |->
        Column(DataFrame(df.columns, SelectSeq(df.rows, LAMBDA r : r[c] = gs[i])), v)]

RaceTestDataUnfiltered(df) == DropNa(df, {"race", "median_income"})
\* test_data of the income-by-race comparison
RaceTestData(df) ==
    WhereNe(DropNa(df, {"race", "median_income"}), "race", Sentinel)

\* df[c].replace(old, new), as a column
ReplaceInColumn(df, c, old, new) ==
    [i \in 1..Len(df.rows) |->
        IF df.rows[i][c] = Some(old) THEN Some(new) ELSE df.rows[i][c]]

\* df[c] = values: c is overwritten, or added as the last column
AssignColumn(df, c, values) ==
    DataFrame(IF HasColumn(df, c) THEN df.columns ELSE Append(df.columns, c),
              [i \in 1..Len(df.rows) |-> (c :> values[i]) @@ df.rows[i]])

CleanEthnicityFromRace(df) ==
    AssignColumn(df, "ethnicity", ReplaceInColumn(df, "race", long_label, short_label))
\* df_analysis['ethnicity'] = df_analysis['ethnicity'].replace(long_label, short_label)
CleanEthnicity(df) ==
    AssignColumn(df, "ethnicity", ReplaceInColumn(df, "ethnicity", long_label, short_label))

\* df[c].isnull(), as a column of booleans
IsNullColumn(df, c) == [i \in 1..Len(df.rows) |-> Some(df.rows[i][c] = None)]

\* the keys of df.groupby(c): null keys are dropped
GroupKeys(df, c) == Range(Column(df, c)) \ {None}

\* the number of rows of df that are in the set S
CountRows(df, S) == Len(SelectSeq(df.rows, LAMBDA r : r \in S))

\* A percentage as the exact fraction num / den.
PercentGe(a, b) == a.num * b.den >= b.num * a.den

MissingDataNotNull(df) ==
    [g \in GroupKeys(df, "race") |->
        [num |-> 100 * CountRows(df, {r \in Range(df.rows) : r.race = g /\ r.median_income # None}),
         den |-> CountRows(df, {r \in Range(df.rows) : r.race = g})]]
\* df.groupby('race')['median_income'].apply(lambda x: x.isnull().mean() * 100)
MissingData(df) ==
    [g \in GroupKeys(df, "race") |->
        [num |-> 100 * CountRows(df, {r \in Range(df.rows) : r.race = g /\ r.median_income = None}),
         den |-> CountRows(df, {r \in Range(df.rows) : r.race = g})]]

\* reset_index(name=...).sort_values(by=..., ascending=False): the order of
\* equal percentages is whatever the sort leaves
MissingFrames(md) ==
    {s \in Perms({[race |-> g, percent_missing_ses_data |-> md[g]] : g \in DOMAIN md}) :
        \A i \in 1..Len(s), j \in 1..Len(s) :
            i < j => PercentGe(s[i].percent_missing_ses_data, s[j].percent_missing_ses_data)}

\* pd.crosstab(df['race'], df['ses_data_missing']): rows with a null race are
\* left out; only observed values become rows and columns
Crosstab(df) ==
    LET rs == GroupKeys(df, "race")
        cs == {r.ses_data_missing : r \in {x \in Range(df.rows) : x.race # None}}
    IN [index |-> rs, columns |-> cs,
        count |-> [g \in rs, b \in cs |->
                      CountRows(df, {r \in Range(df.rows) : r.race = g /\ r.ses_data_missing = b})]]

-----------------------------------------------------------------------------
(* The statistics library and the annotation text *)

\* IEEE comparison: every comparison with NaN is false
Lt(p, a) == p # NaN /\ p < a

\* stats.kruskal(*samples) raises ValueError on fewer than two samples
KruskalNeedsGroups(samples) == Len(samples) < 2
\* every value of every sample is the same number: depending on the version
\* of the library the call raises ValueError or returns NaN
AllIdentical(samples) == Cardinality(Range(Concat(samples))) <= 1

\* f"{p:.3f}" in thousandths (PValues holds no value halfway between two)
Format3f(p) == IF p = NaN THEN NaN ELSE (p + 5) \div 10

SignificantLe(p) == p # NaN /\ p <= Alpha
\* if pvalue < 0.05
Significant(p) == Lt(p, Alpha)

\* p_text: "p < 0.001" or f"p = {pvalue:.3f}"
PText(p) ==
    IF Lt(p, PSmall) THEN [op |-> "<", thousandths |-> 1]
    ELSE [op |-> "=", thousandths |-> Format3f(p)]

\* stat_text of a test, with noun "Deviation" or "Difference"
StatText(p, test, noun) ==
    IF Significant(p)
    THEN [headline |-> "Statistically Significant", noun |-> noun,
          test |-> test, p_text |-> PText(p)]
    ELSE [headline |-> "No Significant", noun |-> noun,
          test |-> test, p_text |-> [op |-> "=", thousandths |-> Format3f(p)]]

BoxColor(p) == IF Significant(p) THEN "lightgreen" ELSE "lightgray"

-----------------------------------------------------------------------------
(* State *)

VARIABLES
    pc,                 \* the section the script is about to run
    error,              \* the unhandled exception that ended the run, if any
    cdr_dataset_id,     \* os.environ.get('WORKSPACE_CDR')
    sql_query,          \* the query string built, as the dataset it names
    sql_query_ses,      \* level 1: the SES query string
    requests,           \* the queries handed to client.query, in order
    snapshot,           \* the tables the engine read when it ran the query
    df_analysis,        \* level 2: the shared row set
    df_demographics,    \* level 1
    df_ses,             \* level 1
    groups, income_by_group,      \* level 2: the samples of the race test
    groups_eth, poverty_by_group, \* level 2: the samples of the ethnicity test
    pvalue, stat_text, box_color,
    dunn_results, missing_df, contingency_table,
    calls,              \* the calls made to the statistics libraries
    rendered            \* the plots handed to the renderer, in order

frames == <<df_analysis, df_demographics, df_ses>>
setup == <<cdr_dataset_id, sql_query, sql_query_ses>>
engine == <<requests, snapshot>>
raceTest == <<groups, income_by_group>>
ethTest == <<groups_eth, poverty_by_group>>
annotation == <<pvalue, stat_text, box_color>>
tables == <<dunn_results, missing_df, contingency_table>>
vars == <<pc, error, setup, engine, frames, raceTest, ethTest, annotation, tables,
          calls, rendered>>

Init ==
    /\ pc = "setup"
    /\ error = None
    /\ cdr_dataset_id = None
    /\ sql_query = None
    /\ sql_query_ses = None
    /\ requests = <<>>
    /\ snapshot = NoDatabase
    /\ df_analysis = EmptyDataFrame
    /\ df_demographics = EmptyDataFrame
    /\ df_ses = EmptyDataFrame
    /\ groups = <<>>
    /\ income_by_group = <<>>
    /\ groups_eth = <<>>
    /\ poverty_by_group = <<>>
    /\ pvalue = None
    /\ stat_text = None
    /\ box_color = None
    /\ dunn_results = None
    /\ missing_df = <<>>
    /\ contingency_table = None
    /\ calls = <<>>
    /\ rendered = <<>>

\* an unhandled exception: the interpreter prints the traceback and exits
Raise(type, by) ==
    /\ pc' = "aborted"
    /\ error' = Some([type |-> type, raised_by |-> by])

\* f"`{cdr_dataset_id}.person`": None is formatted as the text None
FormatDataset(id) == IF id = None THEN "None" ELSE id[1]

-----------------------------------------------------------------------------
(* scripts/AoU/level2_metadata_analysis.py *)

\* Setup: read WORKSPACE_CDR, print which case it is, build the query string.
Setup ==
    /\ pc = "setup"
    /\ \E e \in Environments :
        /\ cdr_dataset_id' = e
        /\ sql_query' = Some([select |-> "combined", dataset |-> FormatDataset(e)])
    /\ pc' = "load"
    /\ UNCHANGED <<error, sql_query_ses, engine, frames, raceTest, ethTest,
                   annotation, tables, calls, rendered>>

\* Run Query and Load Data: any exception of the call is caught and replaced
\* by pd.DataFrame().  The engine knows no dataset other than its own.
RunQuery ==
    /\ pc = "load"
    /\ requests' = Append(requests, sql_query[1])
    /\ \/ /\ df_analysis' = EmptyDataFrame
          /\ UNCHANGED snapshot
       \/ /\ sql_query[1].dataset = WarehouseDataset
          /\ \E db \in Databases :
                /\ snapshot' = db
                /\ df_analysis' = CombinedQuery(db)
    /\ pc' = "plot1"
    /\ UNCHANGED <<error, setup, df_demographics, df_ses, raceTest, ethTest,
                   annotation, tables, calls, rendered>>

Annotate(p, test, noun) ==
    /\ pvalue' = Some(p)
    /\ stat_text' = Some(StatText(p, test, noun))
    /\ box_color' = Some(BoxColor(p))

\* hvalue, pvalue = stats.kruskal(*samples), the annotation and plt.show()
Kruskal(samples, plot, next) ==
    /\ calls' = Append(calls, [fn |-> "stats.kruskal", nargs |-> Len(samples)])
    /\ \/ /\ KruskalNeedsGroups(samples)
          /\ Raise("ValueError", "stats.kruskal")
          /\ UNCHANGED <<annotation, rendered>>
       \/ /\ ~KruskalNeedsGroups(samples)
          /\ AllIdentical(samples)
          /\ Raise("ValueError", "stats.kruskal")
          /\ UNCHANGED <<annotation, rendered>>
       \/ /\ ~KruskalNeedsGroups(samples)
          /\ \E p \in PValues :
                /\ (p = NaN) <=> AllIdentical(samples)
                /\ Annotate(p, "Kruskal-Wallis", "Deviation")
          /\ rendered' = Append(rendered, plot)
          /\ pc' = next
          /\ UNCHANGED error

\* Analysis Plot 1: income by race, with its Kruskal-Wallis test
AnalysisPlot1 ==
    /\ pc = "plot1"
    /\ IF ~HasColumn(df_analysis, "race")
       THEN /\ Raise("KeyError", "df_analysis['race']")
            /\ UNCHANGED <<raceTest, annotation, calls, rendered>>
       ELSE LET td == RaceTestData(df_analysis)
                gs == Unique(Column(td, "race"))
                samples == ValuesByGroup(td, "median_income", "race", gs)
            IN /\ groups' = gs
               /\ income_by_group' = samples
               /\ Kruskal(samples, "Analysis Plot 1", "clean")
    /\ UNCHANGED <<setup, engine, frames, ethTest, tables>>

\* Data Cleaning for Plot 2 Label.  (A frame without columns never comes this
\* far: Analysis Plot 1 raises on it.  The same holds for the KeyError of the
\* later sections.)
CleanEthnicityLabel ==
    /\ pc = "clean"
    /\ IF ~HasColumn(df_analysis, "ethnicity")
       THEN /\ Raise("KeyError", "df_analysis['ethnicity']")
            /\ UNCHANGED df_analysis
       ELSE /\ df_analysis' = CleanEthnicity(df_analysis)
            /\ pc' = "plot2"
            /\ UNCHANGED error
    /\ UNCHANGED <<setup, engine, df_demographics, df_ses, raceTest, ethTest,
                   annotation, tables, calls, rendered>>

\* Analysis Plot 2: poverty by ethnicity, with its Kruskal-Wallis test
AnalysisPlot2 ==
    /\ pc = "plot2"
    /\ IF ~HasColumns(df_analysis, {"ethnicity", "fraction_poverty"})
       THEN /\ Raise("KeyError", "sns.boxplot")
            /\ UNCHANGED <<ethTest, annotation, calls, rendered>>
       ELSE LET td == DropNa(df_analysis, {"ethnicity", "fraction_poverty"})
                gs == Unique(Column(td, "ethnicity"))
                samples == ValuesByGroup(td, "fraction_poverty", "ethnicity", gs)
            IN /\ groups_eth' = gs
               /\ poverty_by_group' = samples
               /\ Kruskal(samples, "Analysis Plot 2", "dunn")
    /\ UNCHANGED <<setup, engine, frames, raceTest, tables>>

\* Post-hoc test: sp.posthoc_dunn on the data of the ethnicity test; the
\* result is a groups x groups table of Bonferroni-corrected p-values
PostHocDunn ==
    /\ pc = "dunn"
    /\ calls' = Append(calls, [fn |-> "sp.posthoc_dunn", nargs |-> Len(groups_eth)])
    /\ dunn_results' = Some([index |-> Range(groups_eth), p_adjust |-> "bonferroni"])
    /\ pc' = "plot3"
    /\ UNCHANGED <<error, setup, engine, frames, raceTest, ethTest, annotation,
                   missing_df, contingency_table, rendered>>

\* Analysis Plot 3, first half: percent of missing SES data by race
MissingnessPlot ==
    /\ pc = "plot3"
    /\ IF ~HasColumns(df_analysis, {"race", "median_income"})
       THEN /\ Raise("KeyError", "df_analysis.groupby")
            /\ UNCHANGED missing_df
       ELSE /\ missing_df' \in MissingFrames(MissingData(df_analysis))
            /\ pc' = "chi"
            /\ UNCHANGED error
    /\ UNCHANGED <<setup, engine, frames, raceTest, ethTest, annotation,
                   dunn_results, contingency_table, calls, rendered>>

\* Analysis Plot 3, second half: the chi-square test of missingness by race.
\* chi2_contingency raises ValueError on a table without cells; a table of
\* one row or one column has no degree of freedom and p = 1.0
ChiSquare ==
    /\ pc = "chi"
    /\ LET df == AssignColumn(df_analysis, "ses_data_missing",
                              IsNullColumn(df_analysis, "median_income"))
           ct == Crosstab(df)
       IN /\ df_analysis' = df
          /\ contingency_table' = Some(ct)
          /\ calls' = Append(calls, [fn |-> "stats.chi2_contingency",
                                     nargs |-> Cardinality(ct.index)])
          /\ IF ct.index = {}
             THEN /\ Raise("ValueError", "stats.chi2_contingency")
                  /\ UNCHANGED <<annotation, rendered>>
             ELSE /\ \E p \in PValues \ {NaN} :
                        /\ (Cardinality(ct.index) = 1 \/ Cardinality(ct.columns) = 1)
                              => p = 10000
                        /\ Annotate(p, "Chi-Square", "Difference")
                  /\ rendered' = Append(rendered, "Analysis Plot 3")
                  /\ pc' = "done"
                  /\ UNCHANGED error
    /\ UNCHANGED <<setup, engine, df_demographics, df_ses, raceTest, ethTest,
                   dunn_results, missing_df>>

Next ==
    \/ Setup
    \/ RunQuery
    \/ AnalysisPlot1
    \/ CleanEthnicityLabel
    \/ AnalysisPlot2
    \/ PostHocDunn
    \/ MissingnessPlot
    \/ ChiSquare

Spec == Init /\ [][Next]_vars

-----------------------------------------------------------------------------
(* scripts/AoU/level1_metadata_analysis.py *)

\* Setup: read WORKSPACE_CDR, print which case it is, build the query string.
L1Setup ==
    /\ pc = "setup"
    /\ \E e \in Environments :
        /\ cdr_dataset_id' = e
        /\ sql_query' = Some([select |-> "demographics", dataset |-> FormatDataset(e)])
    /\ pc' = "load"
    /\ UNCHANGED <<error, sql_query_ses, engine, frames, raceTest, ethTest,
                   annotation, tables, calls, rendered>>

\* Run Query and Load Data (Demographics)
L1RunQuery ==
    /\ pc = "load"
    /\ requests' = Append(requests, sql_query[1])
    /\ \/ /\ df_demographics' = EmptyDataFrame
          /\ UNCHANGED snapshot
       \/ /\ sql_query[1].dataset = WarehouseDataset
          /\ \E db \in Databases :
                /\ snapshot' = db
                /\ df_demographics' = DemographicsQuery(db)
    /\ pc' = "plot1"
    /\ UNCHANGED <<error, setup, df_analysis, df_ses, raceTest, ethTest,
                   annotation, tables, calls, rendered>>

\* sns.histplot(data=df.dropna(subset=[c]), x=c, ...); plt.show()
HistPlot(df, c, plot, next) ==
    IF ~HasColumn(df, c)
    THEN /\ Raise("KeyError", "dropna")
         /\ UNCHANGED rendered
    ELSE /\ rendered' = Append(rendered, plot)
         /\ pc' = next
         /\ UNCHANGED error

\* sns.countplot(data=df, y=c, order=df[c].value_counts().index); plt.show()
CountPlot(df, c, plot, next) ==
    IF ~HasColumn(df, c)
    THEN /\ Raise("KeyError", "df_demographics[...]")
         /\ UNCHANGED rendered
    ELSE /\ rendered' = Append(rendered, plot)
         /\ pc' = next
         /\ UNCHANGED error

L1Unplotted == <<setup, engine, frames, raceTest, ethTest, annotation, tables, calls>>

\* Plot 1: Age Distribution
L1Plot1 ==
    /\ pc = "plot1"
    /\ HistPlot(df_demographics, "age", "Plot 1", "plot2")
    /\ UNCHANGED L1Unplotted

\* Plot 2: Sex at Birth
L1Plot2 ==
    /\ pc = "plot2"
    /\ CountPlot(df_demographics, "sex_at_birth", "Plot 2", "plot3")
    /\ UNCHANGED L1Unplotted

\* Plot 3: Race
L1Plot3 ==
    /\ pc = "plot3"
    /\ CountPlot(df_demographics, "race", "Plot 3", "plot4")
    /\ UNCHANGED L1Unplotted

\* Plot 4: Ethnicity
L1Plot4 ==
    /\ pc = "plot4"
    /\ CountPlot(df_demographics, "ethnicity", "Plot 4", "ses")
    /\ UNCHANGED L1Unplotted

\* Socioeconomic (SES) Analysis: build the SES query, run it, load the data.
\* The engine answers from the tables it read for the first query.
L1RunSesQuery ==
    /\ pc = "ses"
    /\ sql_query_ses' = Some([select |-> "ses", dataset |-> FormatDataset(cdr_dataset_id)])
    /\ requests' = Append(requests, sql_query_ses'[1])
    /\ \/ df_ses' = EmptyDataFrame
       \/ /\ sql_query_ses'[1].dataset = WarehouseDataset
          /\ df_ses' = SesQuery(snapshot)
    /\ pc' = "plot5"
    /\ UNCHANGED <<error, cdr_dataset_id, sql_query, snapshot, df_analysis,
                   df_demographics, raceTest, ethTest, annotation, tables,
                   calls, rendered>>

\* Plot 5: Median Income Distribution
L1Plot5 ==
    /\ pc = "plot5"
    /\ HistPlot(df_ses, "median_income", "Plot 5", "plot6")
    /\ UNCHANGED L1Unplotted

\* Plot 6: Poverty Fraction Distribution
L1Plot6 ==
    /\ pc = "plot6"
    /\ HistPlot(df_ses, "fraction_poverty", "Plot 6", "plot7")
    /\ UNCHANGED L1Unplotted

\* Plot 7: No Health Insurance Percent Distribution
L1Plot7 ==
    /\ pc = "plot7"
    /\ HistPlot(df_ses, "fraction_no_health_ins", "Plot 7", "done")
    /\ UNCHANGED L1Unplotted

NextLevel1 ==
    \/ L1Setup
    \/ L1RunQuery
    \/ L1Plot1
    \/ L1Plot2
    \/ L1Plot3
    \/ L1Plot4
    \/ L1RunSesQuery
    \/ L1Plot5
    \/ L1Plot6
    \/ L1Plot7

SpecLevel1 == Init /\ [][NextLevel1]_vars

-----------------------------------------------------------------------------
(* Properties *)

Rows(df) == Range(df.rows)
PersonIds(db) == {db.person[i].person_id : i \in 1..Len(db.person)}
UniqueKey(table, key) ==
    \A i \in 1..Len(table), j \in 1..Len(table) : table[i][key] = table[j][key] => i = j
\* level 2: the combined query succeeded and its rows are loaded
Loaded == Len(requests) >= 1 /\ HasColumn(df_analysis, "person_id")
Started == pc \notin {"setup", "load"}

\* C1: with WORKSPACE_CDR unset the run builds no query string and issues no
\* request to the query engine.
C1_NoQueryWithoutDataset ==
    (pc # "setup" /\ cdr_dataset_id = None) => (sql_query = None /\ requests = <<>>)

\* level 1: a query call raised and its frame was replaced by pd.DataFrame()
QueryFailed ==
    \/ Len(requests) >= 1 /\ df_demographics = EmptyDataFrame
    \/ Len(requests) >= 2 /\ df_ses = EmptyDataFrame

\* C2: after a failed query the run goes on with an empty row set: no step
\* that follows ends the run with an unhandled exception.
C2_QueryFailureDoesNotAbort == QueryFailed => (error = None /\ pc # "aborted")

\* C3: over lookups with unique keys the combined query returns exactly one
\* row per subject, as many rows as the demographics-only query.
C3_OneRowPerSubject ==
    (Loaded /\ UniqueKey(snapshot.concept, "concept_id")
            /\ UniqueKey(snapshot.zip3_ses_map, "zip3_as_string"))
    => /\ Len(df_analysis.rows) = Len(DemographicsQuery(snapshot).rows)
       /\ \A id \in PersonIds(snapshot) :
            Len(SelectSeq(df_analysis.rows, LAMBDA r : r.person_id = Some(id))) = 1

StatisticalCalls == {"stats.kruskal", "sp.posthoc_dunn", "stats.chi2_contingency"}

\* C4: a statistical comparison that fails is skipped alone: its exception
\* never ends the run.
C4_TestFailureDoesNotAbort ==
    (error # None /\ error[1].raised_by \in StatisticalCalls) => pc # "aborted"

\* C5: the rank-based test is never invoked with fewer than two groups.
C5_KruskalHasTwoGroups ==
    \A i \in 1..Len(calls) : calls[i].fn = "stats.kruskal" => calls[i].nargs >= 2

\* C6 as claimed: once loaded, no step changes the shared row set.
C6_RowSetNeverChanges ==
    [][Started => df_analysis' = df_analysis]_vars

\* what a step may do to the shared row set: keep every row and every column,
\* add no column but ses_data_missing, change no cell but an ethnicity cell
\* holding the long label, which becomes the short label
FrameEffect(old, new) ==
    /\ Len(new.rows) = Len(old.rows)
    /\ Range(old.columns) \subseteq Range(new.columns)
    /\ Range(new.columns) \ Range(old.columns) \subseteq {"ses_data_missing"}
    /\ \A i \in 1..Len(old.rows), c \in Range(old.columns) :
          \/ new.rows[i][c] = old.rows[i][c]
          \/ /\ c = "ethnicity"
             /\ old.rows[i][c] = Some(long_label)
             /\ new.rows[i][c] = Some(short_label)

\* C6: once loaded, the shared row set is changed by two steps only: the
\* label cleaning rewrites the long ethnicity label to the short one, and the
\* chi-square step adds the column ses_data_missing; every other cell, row and
\* column stays as the query returned it.
C6_OnlyLabelAndFlagChange ==
    [][Started =>
        /\ FrameEffect(df_analysis, df_analysis')
        /\ (df_analysis' # df_analysis => pc \in {"clean", "chi"})]_vars

C6_Witness ==
    /\ pc = "done"
    /\ HasColumn(df_analysis, "ses_data_missing")
    /\ \E r \in Rows(df_analysis) : r.ethnicity = Some(short_label)

\* the per-group percentages of missing_df, weighted by the group's row count
GroupSize(g) == CountRows(df_analysis, {r \in Rows(df_analysis) : r.race = g})
WeightedMissing ==
    SumSeq([i \in 1..Len(missing_df) |->
        (GroupSize(missing_df[i].race) * missing_df[i].percent_missing_ses_data.num)
            \div missing_df[i].percent_missing_ses_data.den])
GroupedRows == SumSeq([i \in 1..Len(missing_df) |-> GroupSize(missing_df[i].race)])
MissingnessDone == pc \in {"chi", "done"}

\* C7 as claimed: the weighted per-group percentages average to the percentage
\* of rows with a null median_income over the full row set, null races included.
C7_WeightedMissingnessAllRows ==
    MissingnessDone =>
        WeightedMissing * Len(df_analysis.rows)
          = 100 * GroupedRows
                * CountRows(df_analysis, {r \in Rows(df_analysis) : r.median_income = None})

\* C7: the weighted per-group percentages sum to the percentage of rows with a
\* null median_income among the rows whose race is not null; rows with a null
\* race belong to no group.
C7_WeightedMissingnessNonNullRace ==
    MissingnessDone =>
        /\ GroupedRows = CountRows(df_analysis, {r \in Rows(df_analysis) : r.race # None})
        /\ WeightedMissing
             = 100 * CountRows(df_analysis,
                               {r \in Rows(df_analysis) :
                    r.race # None /\ r.median_income = None})

C7_Witness ==
    /\ MissingnessDone
    /\ Len(missing_df) >= 2
    /\ \E r \in Rows(df_analysis) : r.race = None /\ r.median_income = None
    /\ \E r \in Rows(df_analysis) : r.race # None /\ r.median_income = None

RaceTestDone == \E i \in 1..Len(calls) : calls[i].fn = "stats.kruskal"

\* C8: the sentinel label is never a group of the income-by-race comparison,
\* and the samples hold exactly the incomes of the rows with a real race.
C8_SentinelNeverCompared ==
    /\ \A i \in 1..Len(groups) : groups[i] # Some(Sentinel)
    /\ RaceTestDone =>
          SumSeq([i \in 1..Len(income_by_group) |-> Len(income_by_group[i])])
            = CountRows(df_analysis,
                {r \in Rows(df_analysis) :
                    r.race \notin {None, Some(Sentinel)} /\ r.median_income # None})

C8_Witness ==
    /\ RaceTestDone
    /\ Len(groups) >= 2
    /\ \E r \in Rows(df_analysis) : r.race = Some(Sentinel) /\ r.median_income # None

\* C9: the verdict is significant exactly when p < 0.05; p < 0.001 is written
\* "p < 0.001", any other p as a number rounded to three decimals.
C9_VerdictAndPText ==
    pvalue # None =>
        LET p == pvalue[1]
            t == stat_text[1]
        IN /\ (t.headline = "Statistically Significant") <=> (p # NaN /\ p < Alpha)
           /\ (box_color = Some("lightgreen")) <=> (p # NaN /\ p < Alpha)
           /\ (p # NaN /\ p < PSmall) => t.p_text = [op |-> "<", thousandths |-> 1]
           /\ (p # NaN /\ p >= PSmall) =>
                 /\ t.p_text.op = "="
                 /\ 10 * t.p_text.thousandths - 5 <= p
                 /\ p <= 10 * t.p_text.thousandths + 5

C9_Witness ==
    /\ pc = "done"
    /\ pvalue = Some(Alpha)
    /\ stat_text # None
    /\ stat_text[1].test = "Chi-Square"
    /\ stat_text[1].headline = "No Significant"

\* the subject has a ZIP3 answer whose value is a key of zip3_ses_map
HasZipMatch(db, id) ==
    \E o \in Range(db.observation), z \in Range(db.zip3_ses_map) :
        /\ o.person_id = id
        /\ o.observation_source_concept_id = ZipConceptId
        /\ o.value_as_string = Some(z.zip3_as_string)

SesIsNull(r) ==
    r.median_income = None /\ r.fraction_poverty = None /\ r.fraction_no_health_ins = None

\* C10: every subject appears in the combined result; a row has an SES value
\* only if its subject has a ZIP3 answer with a lookup entry, and the rows of
\* every other subject have all three SES fields null.
C10_SesOnlyWithZipMatch ==
    Loaded =>
        \A id \in PersonIds(snapshot) :
            /\ \E r \in Rows(df_analysis) : r.person_id = Some(id)
            /\ ~HasZipMatch(snapshot, id) =>
                  \A r \in Rows(df_analysis) : r.person_id = Some(id) => SesIsNull(r)

C10_Witness ==
    /\ Loaded
    /\ \E id \in PersonIds(snapshot) : HasZipMatch(snapshot, id)
    /\ \E id \in PersonIds(snapshot), o \in Range(snapshot.observation) :
          /\ ~HasZipMatch(snapshot, id)
          /\ o.person_id = id
          /\ o.observation_source_concept_id # ZipConceptId
          /\ \E z \in Range(snapshot.zip3_ses_map) : o.value_as_string = Some(z.zip3_as_string)

====
